---- MODULE Spec2Model ----
(***************************************************************************)
(* CacheDumper (src/src/main.cpp): main() partitions the list of .tco      *)
(* files over worker threads; every worker runs ProcessOneFile on its      *)
(* chunk: read, header parse, LZ4 decompression, layout dispatch, TGA      *)
(* write, release of the buffers.                                          *)
(*                                                                         *)
(* One set of actions, two specifications: Spec is the batch (several      *)
(* threads, a small set of file shapes), SpecFile is one worker on one     *)
(* file drawn from a wide set of shapes.                                   *)
(***************************************************************************)
EXTENDS Integers, Sequences, FiniteSets, TLC

VARIABLES
    mainpc,             \* main(): "spawn" (152-160), "join" (162-163), "print" (166-171), "exit"
    mainI,              \* the loop index of main's spawn loop, then of its join loop
    numThreads,         \* main.cpp:144
    fileCount,          \* main.cpp:148
    chunk,              \* thread -> [startIndex, endIndex] captured by the lambda (156)
    pc,                 \* thread -> position in the lambda / ProcessOneFile
    pos,                \* thread -> the lambda's loop variable i (157)
    file,               \* thread -> the fields of the file being processed
    loc,                \* thread -> ProcessOneFile's locals
    heap,               \* thread -> state of the buffers new[]-ed for the current file
    gVecErrorMessages,  \* main.cpp:28
    stbiFlip,           \* stb_image_write's process-wide flip flag, set at main.cpp:342
    images,             \* the .tga files written so far (343)
    processed,          \* file index -> number of ProcessOneFile calls on it
    failed,             \* the file indices whose processing hit an error kind
    crashed,            \* the process was killed by a fault
    printed             \* what main printed as the error summary (166-171)

vars == <<mainpc, mainI, numThreads, fileCount, chunk, pc, pos, file, loc, heap,
          gVecErrorMessages, stbiFlip, images, processed, failed, crashed, printed>>

----------------------------------------------------------------------------
(* Bounds of the model. *)
MaxFiles == 3
MaxThreads == 2
MaxDec == 12
MaxDim == 2
MaxOverrun == 4

(* Program constants. *)
SizeofBaseHeader == 4
SizeofCompressedDataHeader == 24
SizeofTCOHeader == 24
CompressedFlag == 4

Min(a, b) == IF a < b THEN a ELSE b

----------------------------------------------------------------------------
(* 32-bit words as their four bytes, least significant first, so that the  *)
(* masks and shifts of the R24G8 branch keep their 32-bit width.           *)
\* 0xAABBCCDD, 0, 0xFFFFFFFF, 0x000000FF, 0xFFFFFF00, 0x80000001
Words ==
    {<<221, 204, 187, 170>>, <<0, 0, 0, 0>>, <<255, 255, 255, 255>>,
     <<255, 0, 0, 0>>, <<0, 255, 255, 255>>, <<1, 0, 0, 128>>}

\* w & 0xFFFFFF00
MaskFFFFFF00(w) == [k \in 1..4 |-> IF k = 1 THEN 0 ELSE w[k]]
\* w & 0xFF
MaskFF(w) == [k \in 1..4 |-> IF k = 1 THEN w[k] ELSE 0]
\* w << 0x18 in uint32: the bytes move up three places, the top three fall off
Shl24(w) == [k \in 1..4 |-> IF k = 4 THEN w[1] ELSE 0]
\* the conversion uint32 -> uint8
ToUint8(w) == w[1]

\* main.cpp:314
R24G8Red(pix) == MaskFFFFFF00(pix)
\* main.cpp:315
R24G8Green(pix) == ToUint8(MaskFF(Shl24(pix)))

----------------------------------------------------------------------------
(* Header parsing. *)

\* Read<T> (37-46) on a cursor at offset buf of a buffer of end bytes:
\* TRUE iff the read succeeds.
ReadMutant(buf, end, size) == ~(buf + size > end)
Read(buf, end, size) == ~(buf + size >= end)

\* ProcessOneFile lines 190-217 on a non-empty file of len bytes whose
\* headers hold flag and dataHeaderSize: the first check that fails.
HeaderOutcome(len, flag, dataHeaderSize) ==
    IF len < SizeofTCOHeader THEN "Incomplete"
    ELSE IF ~Read(0, len, SizeofBaseHeader) THEN "BaseRead"
    ELSE IF flag # CompressedFlag THEN "Flag"
    ELSE IF ~Read(0, len, SizeofCompressedDataHeader) THEN "CompRead"
    ELSE IF dataHeaderSize # SizeofTCOHeader THEN "HeaderSize"
    ELSE IF ~Read(SizeofCompressedDataHeader, len, SizeofTCOHeader) THEN "TcoRead"
    ELSE "ok"

----------------------------------------------------------------------------
(* Layouts (enum TCOLayout, 49-55). *)
BC1 == 0
BC2 == 1
BC3 == 2
BC4 == 3
BC5 == 4
NotUsed == 5
R11G11B10 == 6
RGBA8 == 7
RG16 == 8
R16 == 9
R32 == 10
R32G8 == 11
R24G8 == 12
R8 == 13

BCLayouts == {BC1, BC2, BC3, BC4, BC5}
PassthroughLayouts == {R11G11B10, RGBA8, R8}
ConvertedLayouts == {RG16, R16, R32, R32G8, R24G8}

\* DecompressBC lines 356-360
BCChannelsMutant(layout) == 4
BCChannels(layout) ==
    IF layout = BC4 THEN 1 ELSE IF layout = BC5 THEN 2 ELSE 4

\* numChannels as each case of the switch sets it (236-329)
CaseChannels(layout) ==
    CASE layout \in BCLayouts -> BCChannels(layout)
      [] layout = R11G11B10 -> 4
      [] layout = RGBA8 -> 4
      [] layout = RG16 -> 2
      [] layout = R16 -> 1
      [] layout = R32 -> 1
      [] layout = R32G8 -> 2
      [] layout = R24G8 -> 2
      [] layout = R8 -> 1
      [] OTHER -> 0

\* bytes the cursor advances per iteration of each conversion loop
LoopStride(layout) ==
    CASE layout = RG16 -> 4       \* 260: uint16* += 2
      [] layout = R16 -> 4        \* 272: uint16* += 2
      [] layout = R32 -> 4        \* 283: uint16* += 2
      [] layout = R32G8 -> 3      \* 298: uint8* += 3
      [] layout = R24G8 -> 12     \* 317: uint32* += 3

\* bytes each iteration reads at the cursor
LoopReadSize(layout) ==
    CASE layout = RG16 -> 4       \* 261-262
      [] layout = R16 -> 2        \* 273
      [] layout = R32 -> 2        \* 284
      [] layout = R32G8 -> 3      \* 296-297
      [] layout = R24G8 -> 4      \* 313

\* what LZ4_decompress_safe (227) may return for a destination of decSize bytes
LZ4Returns(decSize) == {r \in {-1, 0, decSize - 1, decSize} : r >= -1 /\ r <= decSize}

----------------------------------------------------------------------------
(* The shapes of input and the outcomes of the external services that a    *)
(* specification draws from.                                               *)

\* layout tags as a signed 32-bit int: the enumerators, the neighbours of the
\* enumeration and the two ends of the int range
AllLayouts == (-1 .. 14) \cup {-2147483647 - 1, 2147483647}

FileDom ==
    [lens |-> {0, 23, 24, 25, 48, 49}, readOk |-> BOOLEAN,
     flags |-> {CompressedFlag, 5}, dhs |-> {SizeofTCOHeader, 16},
     layouts |-> AllLayouts, dims |-> 0 .. MaxDim, decs |-> 0 .. MaxDec,
     flips |-> BOOLEAN, lz4 |-> {"error", "zero", "short", "full"}, bc |-> {"ok", "initfail", "decfail"},
     wr |-> BOOLEAN, words |-> Words]

BatchDom ==
    [lens |-> {0, 49}, readOk |-> {TRUE},
     flags |-> {CompressedFlag}, dhs |-> {SizeofTCOHeader},
     layouts |-> {NotUsed, RG16}, dims |-> {1}, decs |-> {2, 4},
     flips |-> BOOLEAN, lz4 |-> {"full"}, bc |-> {"ok"},
     wr |-> {TRUE}, words |-> {[k \in 1..4 |-> 0]}]

\* the kinds of return of LZ4_decompress_safe a domain may allow
LZ4Kind(r, decSize) ==
    IF r < 0 THEN "error" ELSE IF r = 0 THEN "zero"
    ELSE IF r < decSize THEN "short" ELSE "full"

----------------------------------------------------------------------------
Threads == 0 .. numThreads - 1

NoFile ==
    [len |-> 0, flag |-> 0, dataHeaderSize |-> 0, decompressedSize |-> 0,
     width |-> 0, height |-> 0, layout |-> 0, flipV |-> FALSE]

NoLoc ==
    [res |-> 0, p8BitData |-> "null", p8len |-> 0, numChannels |-> 0,
     cursor |-> 0, i |-> 0, pix |-> <<>>, red |-> <<>>, green |-> 0,
     err |-> "none", nerr |-> 0, ub |-> FALSE]

NoHeap == [dec |-> "none", pix |-> "none"]

\* delete[] on a buffer in state s
Free(s) == IF s = "live" THEN "freed" ELSE "double"

\* LogError (30-35): one entry appended under gLogMutex
LogError(errs, fname, str) == Append(errs, [file |-> fname, msg |-> str])

\* main.cpp:149
ChunkSizeMutant(n, t) == n \div t
ChunkSize(n, t) == (n + t - 1) \div t

InitWith(ns, ts) ==
    /\ mainpc = "spawn"
    /\ mainI = 0
    /\ numThreads \in ts
    /\ fileCount \in ns
    /\ chunk = [t \in Threads |-> [startIndex |-> 0, endIndex |-> 0]]
    /\ pc = [t \in Threads |-> "unborn"]
    /\ pos = [t \in Threads |-> 0]
    /\ file = [t \in Threads |-> NoFile]
    /\ loc = [t \in Threads |-> NoLoc]
    /\ heap = [t \in Threads |-> NoHeap]
    /\ gVecErrorMessages = <<>>
    /\ stbiFlip = FALSE
    /\ images = {}
    /\ processed = [f \in 0 .. fileCount - 1 |-> 0]
    /\ failed = {}
    /\ crashed = FALSE
    /\ printed = <<>>

Init == InitWith(1 .. MaxFiles, 1 .. MaxThreads)

InitFile == InitWith({1}, {1})

----------------------------------------------------------------------------
(* main() *)

\* 152-160: one iteration of the spawn loop
Spawn ==
    /\ ~crashed
    /\ mainpc = "spawn"
    /\ mainI < numThreads
    /\ LET chunkSize == ChunkSize(fileCount, numThreads)
           startIndex == mainI * chunkSize
           endIndex == Min(startIndex + chunkSize, fileCount)
       IN /\ chunk' = [chunk EXCEPT ![mainI] =
                          [startIndex |-> startIndex, endIndex |-> endIndex]]
          /\ pos' = [pos EXCEPT ![mainI] = startIndex]
    /\ pc' = [pc EXCEPT ![mainI] = "next"]
    /\ IF mainI + 1 < numThreads
       THEN mainI' = mainI + 1 /\ mainpc' = mainpc
       ELSE mainI' = 0 /\ mainpc' = "join"
    /\ UNCHANGED <<numThreads, fileCount, file, loc, heap, gVecErrorMessages,
                   stbiFlip, images, processed, failed, crashed, printed>>

\* 162-163: th.join() returns once thread mainI has finished
Join ==
    /\ ~crashed
    /\ mainpc = "join"
    /\ mainI < numThreads
    /\ pc[mainI] = "exit"
    /\ IF mainI + 1 < numThreads
       THEN mainI' = mainI + 1 /\ mainpc' = mainpc
       ELSE mainI' = mainI + 1 /\ mainpc' = "print"
    /\ UNCHANGED <<numThreads, fileCount, chunk, pc, pos, file, loc, heap,
                   gVecErrorMessages, stbiFlip, images, processed, failed,
                   crashed, printed>>

\* 166-176: the error summary, then return 0
PrintErrors ==
    /\ ~crashed
    /\ mainpc = "print"
    /\ printed' = gVecErrorMessages
    /\ mainpc' = "exit"
    /\ UNCHANGED <<mainI, numThreads, fileCount, chunk, pc, pos, file, loc, heap,
                   gVecErrorMessages, stbiFlip, images, processed, failed, crashed>>

----------------------------------------------------------------------------
(* The worker lambda (156-159) and ProcessOneFile (181-352), thread t,     *)
(* inputs drawn from the domain D.                                         *)

\* ReadFile (439-458): the size of the string it returns
ReadFile(len, ok) == IF ok THEN len ELSE 0

\* 157-158, 182-188: the loop test, the call, ReadFile and the empty check
Enter(t, D) ==
    /\ ~crashed
    /\ pc[t] = "next"
    /\ pos[t] < chunk[t].endIndex
    /\ processed' = [processed EXCEPT ![pos[t]] = @ + 1]
    /\ \E len \in D.lens, ok \in D.readOk :
         LET size == ReadFile(len, ok) IN
         /\ file' = [file EXCEPT ![t].len = size]
         /\ IF size = 0
            THEN /\ pc' = [pc EXCEPT ![t] = "done"]
                 /\ loc' = [loc EXCEPT ![t].err = "FileRead"]
                 /\ failed' = failed \cup {pos[t]}
            ELSE /\ pc' = [pc EXCEPT ![t] = "parse"]
                 /\ UNCHANGED <<loc, failed>>
    /\ UNCHANGED <<mainpc, mainI, numThreads, fileCount, chunk, pos, heap,
                   gVecErrorMessages, stbiFlip, images, crashed, printed>>

\* 190-222: the three header reads and the checks between them
ParseHeaders(t, D) ==
    /\ ~crashed
    /\ pc[t] = "parse"
    /\ \E flag \in D.flags, dhs \in D.dhs :
         LET out == HeaderOutcome(file[t].len, flag, dhs) IN
         IF out # "ok"
         THEN /\ file' = [file EXCEPT ![t].flag = flag, ![t].dataHeaderSize = dhs]
              /\ gVecErrorMessages' = LogError(gVecErrorMessages, pos[t], out)
              /\ loc' = [loc EXCEPT ![t].err = out, ![t].nerr = @ + 1]
              /\ failed' = failed \cup {pos[t]}
              /\ pc' = [pc EXCEPT ![t] = "done"]
         ELSE /\ \E ds \in D.decs, w \in D.dims, h \in D.dims,
                    l \in D.layouts, fv \in D.flips :
                    file' = [file EXCEPT ![t] =
                               [len |-> file[t].len, flag |-> flag,
                                dataHeaderSize |-> dhs, decompressedSize |-> ds,
                                width |-> w, height |-> h, layout |-> l,
                                flipV |-> fv]]
              /\ pc' = [pc EXCEPT ![t] = "decomp"]
              /\ UNCHANGED <<gVecErrorMessages, loc, failed>>
    /\ UNCHANGED <<mainpc, mainI, numThreads, fileCount, chunk, pos, heap,
                   stbiFlip, images, processed, crashed, printed>>

\* 224-231: the payload buffer and LZ4_decompress_safe
Decompress(t, D) ==
    /\ ~crashed
    /\ pc[t] = "decomp"
    /\ \E res \in LZ4Returns(file[t].decompressedSize) :
         /\ LZ4Kind(res, file[t].decompressedSize) \in D.lz4
         /\ IF res <= 0
            THEN /\ heap' = [heap EXCEPT ![t].dec = Free("live")]
                 /\ gVecErrorMessages' =
                        LogError(gVecErrorMessages, pos[t], "Decompress")
                 /\ loc' = [loc EXCEPT ![t].res = res, ![t].err = "Decompress",
                                       ![t].nerr = @ + 1]
                 /\ failed' = failed \cup {pos[t]}
                 /\ pc' = [pc EXCEPT ![t] = "done"]
            ELSE /\ heap' = [heap EXCEPT ![t].dec = "live"]
                 /\ loc' = [loc EXCEPT ![t].res = res]
                 /\ pc' = [pc EXCEPT ![t] = "dispatch"]
                 /\ UNCHANGED <<gVecErrorMessages, failed>>
    /\ UNCHANGED <<mainpc, mainI, numThreads, fileCount, chunk, pos, file,
                   stbiFlip, images, processed, crashed, printed>>

\* 233-333: the switch on tcoHeader.layout, up to the first iteration of a
\* conversion loop; the BC cases are DecompressBC (354-437)
Dispatch(t, D) ==
    /\ ~crashed
    /\ pc[t] = "dispatch"
    /\ LET f == file[t]
           ch == CaseChannels(f.layout)
           size == (f.width * f.height) * ch
       IN
       IF f.layout \in BCLayouts
       THEN \E oc \in D.bc :
              /\ heap' = [heap EXCEPT ![t].pix = "live"]
              /\ IF oc = "ok"
                 THEN /\ loc' = [loc EXCEPT ![t].numChannels = ch,
                                            ![t].p8BitData = "pix",
                                            ![t].p8len = size]
                      /\ UNCHANGED <<gVecErrorMessages, failed>>
                 ELSE /\ loc' = [loc EXCEPT ![t].numChannels = ch,
                                            ![t].err = "Decode",
                                            ![t].nerr = @ + 1]
                      /\ gVecErrorMessages' =
                             LogError(gVecErrorMessages, pos[t], oc)
                      /\ failed' = failed \cup {pos[t]}
              /\ pc' = [pc EXCEPT ![t] = "post"]
       ELSE IF f.layout \in PassthroughLayouts
       THEN /\ loc' = [loc EXCEPT ![t].numChannels = ch,
                                  ![t].p8BitData = "dec",
                                  ![t].p8len = f.decompressedSize]
            /\ pc' = [pc EXCEPT ![t] = "post"]
            /\ UNCHANGED <<heap, gVecErrorMessages, failed>>
       ELSE IF f.layout \in ConvertedLayouts
       THEN /\ heap' = [heap EXCEPT ![t].pix = "live"]
            /\ loc' = [loc EXCEPT ![t].numChannels = ch,
                                  ![t].p8BitData = "pix",
                                  ![t].p8len = size,
                                  ![t].cursor = 0, ![t].i = 0]
            /\ pc' = [pc EXCEPT ![t] = "loop"]
            /\ UNCHANGED <<gVecErrorMessages, failed>>
       ELSE /\ heap' = [heap EXCEPT ![t].dec = Free(@)]
            /\ gVecErrorMessages' =
                   LogError(gVecErrorMessages, pos[t], "UnsupportedLayout")
            /\ loc' = [loc EXCEPT ![t].err = "UnsupportedLayout",
                                  ![t].nerr = @ + 1]
            /\ failed' = failed \cup {pos[t]}
            /\ pc' = [pc EXCEPT ![t] = "done"]
    /\ UNCHANGED <<mainpc, mainI, numThreads, fileCount, chunk, pos, file,
                   stbiFlip, images, processed, crashed, printed>>

\* one iteration of a conversion loop (260-264, 272-275, 283-286, 295-302,
\* 312-321): the test cursor != end, the reads at the cursor, the stores at
\* index i, the advance.  A read past the payload or a store past the pixel
\* buffer is undefined behaviour: the iteration goes on (on whatever bytes it
\* finds) and the thread is marked, so that the fault may strike (Crash).
LoopStep(t, D) ==
    /\ ~crashed
    /\ pc[t] = "loop"
    /\ loc[t].cursor # file[t].decompressedSize
    /\ loc[t].cursor <= file[t].decompressedSize + MaxOverrun
    /\ LET f == file[t]
           l == loc[t]
           oobRead == l.cursor + LoopReadSize(f.layout) > f.decompressedSize
           oobWrite == (l.i + 1) * l.numChannels > l.p8len
       IN \E pix \in (IF f.layout = R24G8 THEN D.words ELSE {<<>>}) :
            loc' = [loc EXCEPT
                      ![t].cursor = @ + LoopStride(f.layout),
                      ![t].i = @ + 1,
                      ![t].pix = pix,
                      ![t].red = IF f.layout = R24G8 THEN R24G8Red(pix) ELSE <<>>,
                      ![t].green = IF f.layout = R24G8 THEN R24G8Green(pix) ELSE 0,
                      ![t].ub = @ \/ oobRead \/ oobWrite]
    /\ UNCHANGED <<mainpc, mainI, numThreads, fileCount, chunk, pc, pos, file,
                   heap, gVecErrorMessages, stbiFlip, images, processed, failed,
                   crashed, printed>>

\* the loop test fails: the cursor equals pDecDataEnd; break (265, 276, 287, 304, 323)
LoopExit(t) ==
    /\ ~crashed
    /\ pc[t] = "loop"
    /\ loc[t].cursor = file[t].decompressedSize
    /\ pc' = [pc EXCEPT ![t] = "post"]
    /\ loc' = [loc EXCEPT ![t].pix = <<>>, ![t].red = <<>>, ![t].green = 0]
    /\ UNCHANGED <<mainpc, mainI, numThreads, fileCount, chunk, pos, file,
                   heap, gVecErrorMessages, stbiFlip, images, processed, failed,
                   crashed, printed>>

\* 335-342: the null check, the output name, stbi_flip_vertically_on_write
SetFlip(t) ==
    /\ ~crashed
    /\ pc[t] = "post"
    /\ IF loc[t].p8BitData = "null"
       THEN /\ heap' = [heap EXCEPT ![t].dec = Free(@)]
            /\ pc' = [pc EXCEPT ![t] = "done"]
            /\ UNCHANGED stbiFlip
       ELSE /\ stbiFlip' = ~file[t].flipV
            /\ pc' = [pc EXCEPT ![t] = "write"]
            /\ UNCHANGED heap
    /\ UNCHANGED <<mainpc, mainI, numThreads, fileCount, chunk, pos, file, loc,
                   gVecErrorMessages, images, processed, failed, crashed, printed>>

\* 343-347: stbi_write_tga reads width*height*comp bytes of the buffer and
\* flips by the process-wide flag
WriteImage(t, D) ==
    /\ ~crashed
    /\ pc[t] = "write"
    /\ LET f == file[t]
           l == loc[t]
           oobRead == (f.width * f.height) * l.numChannels > l.p8len
       IN \E ok \in D.wr :
            IF ok
            THEN /\ images' = images \cup
                       {[file |-> pos[t], width |-> f.width, height |-> f.height,
                         comp |-> l.numChannels, len |-> l.p8len,
                         flip |-> stbiFlip, flipV |-> f.flipV]}
                 /\ loc' = [loc EXCEPT ![t].ub = @ \/ oobRead]
                 /\ UNCHANGED <<gVecErrorMessages, failed>>
            ELSE /\ gVecErrorMessages' = LogError(gVecErrorMessages, pos[t], "Write")
                 /\ loc' = [loc EXCEPT ![t].err = "Write", ![t].nerr = @ + 1,
                                       ![t].ub = @ \/ oobRead]
                 /\ failed' = failed \cup {pos[t]}
                 /\ UNCHANGED images
    /\ pc' = [pc EXCEPT ![t] = "release"]
    /\ UNCHANGED <<mainpc, mainI, numThreads, fileCount, chunk, pos, file, heap,
                   stbiFlip, processed, crashed, printed>>

\* 349-351: the two delete[]
Release(t) ==
    /\ ~crashed
    /\ pc[t] = "release"
    /\ LET h1 == IF loc[t].p8BitData # "dec"
                 THEN [heap[t] EXCEPT !.dec = Free(@)] ELSE heap[t]
           h2 == IF loc[t].p8BitData = "dec"
                 THEN [h1 EXCEPT !.dec = Free(@)] ELSE [h1 EXCEPT !.pix = Free(@)]
       IN heap' = [heap EXCEPT ![t] = h2]
    /\ pc' = [pc EXCEPT ![t] = "done"]
    /\ UNCHANGED <<mainpc, mainI, numThreads, fileCount, chunk, pos, file, loc,
                   gVecErrorMessages, stbiFlip, images, processed, failed,
                   crashed, printed>>

\* ProcessOneFile has returned: ++i of the lambda's loop (157)
FileDone(t) ==
    /\ ~crashed
    /\ pc[t] = "done"
    /\ pos' = [pos EXCEPT ![t] = @ + 1]
    /\ file' = [file EXCEPT ![t] = NoFile]
    /\ loc' = [loc EXCEPT ![t] = NoLoc]
    /\ heap' = [heap EXCEPT ![t] = NoHeap]
    /\ pc' = [pc EXCEPT ![t] = "next"]
    /\ UNCHANGED <<mainpc, mainI, numThreads, fileCount, chunk,
                   gVecErrorMessages, stbiFlip, images, processed, failed,
                   crashed, printed>>

\* the lambda's loop test fails (157): the thread ends
ThreadExit(t) ==
    /\ ~crashed
    /\ pc[t] = "next"
    /\ pos[t] >= chunk[t].endIndex
    /\ pc' = [pc EXCEPT ![t] = "exit"]
    /\ UNCHANGED <<mainpc, mainI, numThreads, fileCount, chunk, pos, file, loc,
                   heap, gVecErrorMessages, stbiFlip, images, processed, failed,
                   crashed, printed>>

\* an out-of-bounds access of thread t faults: the process dies
Crash(t) ==
    /\ ~crashed
    /\ loc[t].ub
    /\ crashed' = TRUE
    /\ UNCHANGED <<mainpc, mainI, numThreads, fileCount, chunk, pc, pos, file,
                   loc, heap, gVecErrorMessages, stbiFlip, images, processed,
                   failed, printed>>

----------------------------------------------------------------------------
Next ==
    \/ Spawn
    \/ Join
    \/ PrintErrors
    \/ \E t \in Threads : Enter(t, BatchDom)
    \/ \E t \in Threads : ParseHeaders(t, BatchDom)
    \/ \E t \in Threads : Decompress(t, BatchDom)
    \/ \E t \in Threads : Dispatch(t, BatchDom)
    \/ \E t \in Threads : LoopStep(t, BatchDom)
    \/ \E t \in Threads : LoopExit(t)
    \/ \E t \in Threads : SetFlip(t)
    \/ \E t \in Threads : WriteImage(t, BatchDom)
    \/ \E t \in Threads : Release(t)
    \/ \E t \in Threads : FileDone(t)
    \/ \E t \in Threads : ThreadExit(t)
    \/ \E t \in Threads : Crash(t)

NextFile ==
    \/ Spawn
    \/ Join
    \/ PrintErrors
    \/ \E t \in Threads : Enter(t, FileDom)
    \/ \E t \in Threads : ParseHeaders(t, FileDom)
    \/ \E t \in Threads : Decompress(t, FileDom)
    \/ \E t \in Threads : Dispatch(t, FileDom)
    \/ \E t \in Threads : LoopStep(t, FileDom)
    \/ \E t \in Threads : LoopExit(t)
    \/ \E t \in Threads : SetFlip(t)
    \/ \E t \in Threads : WriteImage(t, FileDom)
    \/ \E t \in Threads : Release(t)
    \/ \E t \in Threads : FileDone(t)
    \/ \E t \in Threads : ThreadExit(t)
    \/ \E t \in Threads : Crash(t)

\* the batch: several threads, several files
Spec == Init /\ [][Next]_vars

\* one thread, one file, drawn from the wide domain
SpecFile == InitFile /\ [][NextFile]_vars

----------------------------------------------------------------------------
(* Helpers of the properties. *)

HeaderErrors == {"Incomplete", "BaseRead", "Flag", "CompRead", "HeaderSize", "TcoRead"}

\* thread t is inside ProcessOneFile, or has just returned from it
InFile(t) == pc[t] \notin {"unborn", "next", "exit"}

\* thread t is past the header parse of its file
PastHeaders(t) == pc[t] \in {"decomp", "dispatch", "loop", "post", "write", "release"}

\* thread t is past the decompression stage of its file
PastDecompress(t) == pc[t] \in {"dispatch", "loop", "post", "write", "release"}

\* the entries of the error collection that name file f
ErrorsOf(f) == {k \in 1 .. Len(gVecErrorMessages) : gVecErrorMessages[k].file = f}

\* the channel count of each layout tag, as the table of the specification has it
ChannelTable ==
    [l \in {0, 1, 2, 3, 4, 6, 7, 8, 9, 10, 11, 12, 13} |->
        CASE l \in {0, 1, 2, 6, 7} -> 4
          [] l \in {4, 8, 11, 12} -> 2
          [] l \in {3, 9, 10, 13} -> 1]

----------------------------------------------------------------------------
(* C1: when the batch has run to main's return, the number of images       *)
(* written is the number of files less the malformed ones, and the error   *)
(* collection holds one entry per malformed file.                          *)
C1_BatchAccounting ==
    mainpc = "exit" =>
        /\ Cardinality({im.file : im \in images}) = fileCount - Cardinality(failed)
        /\ Len(gVecErrorMessages) = Cardinality(failed)

(* C2: in the R24G8 loop, for the word pix just read (from a payload that  *)
(* was decompressed in full and read within its bounds), the red value     *)
(* that is rescaled is pix & 0xFFFFFF00 and the green byte is byte 0 of    *)
(* pix.                                                                    *)
C2_R24G8RedGreen ==
    \A t \in Threads :
        (/\ pc[t] = "loop" /\ file[t].layout = R24G8 /\ loc[t].pix # <<>>
         /\ loc[t].res = file[t].decompressedSize /\ ~loc[t].ub
         /\ loc[t].cursor <= file[t].decompressedSize) =>
            /\ loc[t].red = <<0, loc[t].pix[2], loc[t].pix[3], loc[t].pix[4]>>
            /\ loc[t].green = loc[t].pix[1]

(* C3: every image was written with vertical flip equal to the negation of *)
(* its own file's flipV.                                                   *)
C3_FlipPerFile == \A im \in images : im.flip = ~im.flipV

(* C4 as stated: once the layout dispatch of a file has run, a tag of the  *)
(* table has produced a pixel buffer with the table's channel count, and   *)
(* every other tag (5, negative, above 13) has ended the file with an      *)
(* UnsupportedLayout error: one error recorded, no buffer, no image.       *)
C4_LayoutDichotomy ==
    \A t \in Threads :
        LET f == file[t]
            l == loc[t]
            dispatched == pc[t] \in {"loop", "post", "write", "release"}
                          \/ (pc[t] = "done" /\ l.res > 0)
        IN dispatched =>
            IF f.layout \in DOMAIN ChannelTable
            THEN /\ l.p8BitData # "null"
                 /\ l.numChannels = ChannelTable[f.layout]
            ELSE /\ pc[t] = "done"
                 /\ l.err = "UnsupportedLayout"
                 /\ l.nerr = 1
                 /\ l.p8BitData = "null"
                 /\ \A im \in images : im.file # pos[t]

(* C4 as amended: once the layout dispatch of a file has run, a tag of the *)
(* table has set the table's channel count and produced a pixel buffer,    *)
(* except that a block-compressed tag (0..4) whose block decode failed has *)
(* produced no buffer and recorded a decode error; every other tag (5,     *)
(* negative, above 13) has ended the file with an UnsupportedLayout error: *)
(* one error recorded, no buffer, no image.                                *)
C4_LayoutChannels ==
    \A t \in Threads :
        LET f == file[t]
            l == loc[t]
            dispatched == pc[t] \in {"loop", "post", "write", "release"}
                          \/ (pc[t] = "done" /\ l.res > 0)
        IN dispatched =>
            IF f.layout \in DOMAIN ChannelTable
            THEN /\ l.err # "UnsupportedLayout"
                 /\ l.numChannels = ChannelTable[f.layout]
                 /\ l.p8BitData = "null" => (f.layout \in 0 .. 4 /\ l.err = "Decode")
                 /\ \A im \in images : im.file = pos[t] => im.comp = ChannelTable[f.layout]
            ELSE /\ pc[t] = "done"
                 /\ l.err = "UnsupportedLayout"
                 /\ l.nerr = 1
                 /\ Cardinality(ErrorsOf(pos[t])) = 1
                 /\ l.p8BitData = "null"
                 /\ \A im \in images : im.file # pos[t]

C4_Witness ==
    \E t \in Threads :
        /\ pc[t] = "done"
        /\ file[t].layout = -2147483647 - 1
        /\ loc[t].err = "UnsupportedLayout"
        /\ Len(gVecErrorMessages) = 1
        /\ images = {}

(* C5: a header read succeeds only when strictly more bytes remain than    *)
(* the structure's size; the checks run in the order length < 24, base     *)
(* read, flag, compressed-header read, dataHeaderSize, TCO-header read; a  *)
(* file with flag 4 and dataHeaderSize 24 passes exactly when it has at    *)
(* least 49 bytes.                                                         *)
C5_HeaderReads ==
    \A t \in Threads :
        LET f == file[t]
            e == loc[t].err
        IN /\ PastHeaders(t) => (f.len >= 49 /\ f.flag = 4 /\ f.dataHeaderSize = 24)
           /\ pc[t] = "done" =>
                /\ (f.len >= 49 /\ f.flag = 4 /\ f.dataHeaderSize = 24)
                        => e \notin HeaderErrors
                /\ e = "Incomplete" <=> (f.len > 0 /\ f.len < 24)
                /\ e # "BaseRead"
                /\ e = "Flag" <=> (f.len >= 24 /\ f.flag # 4)
                /\ e = "CompRead" <=> (f.len = 24 /\ f.flag = 4)
                /\ e = "HeaderSize" <=> (f.len >= 25 /\ f.flag = 4 /\ f.dataHeaderSize # 24)
                /\ e = "TcoRead" <=> (f.len >= 25 /\ f.len <= 48 /\ f.flag = 4
                                      /\ f.dataHeaderSize = 24)

C5_Witness ==
    \E t \in Threads :
        /\ pc[t] = "decomp"
        /\ file[t].len = 49
        /\ file[t].flag = 4
        /\ file[t].dataHeaderSize = 24

(* C6: a file is past the decompression stage only when the decompression  *)
(* service returned exactly decompressedSize.                              *)
C6_ExactDecompress ==
    \A t \in Threads : PastDecompress(t) => loc[t].res = file[t].decompressedSize

(* C7: the buffer handed to the image writer (for a payload decompressed   *)
(* in full and converted within bounds) has width*height*channels bytes.   *)
C7_BufferLength ==
    \A t \in Threads :
        (pc[t] = "write" /\ loc[t].res = file[t].decompressedSize /\ ~loc[t].ub) =>
            loc[t].p8len = (file[t].width * file[t].height) * loc[t].numChannels

(* C8: no buffer is released twice, and when the processing of a file ends *)
(* every buffer allocated for it has been released.                        *)
C8_ReleasedOnce ==
    \A t \in Threads :
        /\ heap[t].dec # "double"
        /\ heap[t].pix # "double"
        /\ pc[t] = "done" => (heap[t].dec \in {"none", "freed"}
                              /\ heap[t].pix \in {"none", "freed"})

(* C9: the chunks of the threads are ordered ranges that are pairwise      *)
(* disjoint and cover 0..N-1; no thread indexes the file list out of       *)
(* range; no file is processed twice; main prints the error collection     *)
(* only after every thread has finished, when every file has been          *)
(* processed exactly once.                                                 *)
C9_Partition ==
    /\ mainpc # "spawn" =>
         /\ \A f \in 0 .. fileCount - 1 :
               Cardinality({t \in Threads : chunk[t].startIndex <= f
                                            /\ f < chunk[t].endIndex}) = 1
         /\ \A t \in Threads : chunk[t].endIndex <= fileCount
         /\ \A t \in Threads :
               (t + 1) \in Threads => chunk[t].endIndex <= chunk[t + 1].startIndex
    /\ \A t \in Threads : InFile(t) => pos[t] \in 0 .. fileCount - 1
    /\ \A f \in 0 .. fileCount - 1 : processed[f] <= 1
    /\ mainpc \in {"print", "exit"} =>
         /\ \A t \in Threads : pc[t] = "exit"
         /\ \A f \in 0 .. fileCount - 1 : processed[f] = 1
    /\ mainpc = "exit" => printed = gVecErrorMessages
    /\ mainpc # "exit" => printed = <<>>

C9_Witness ==
    /\ mainpc = "exit"
    /\ fileCount = 3
    /\ numThreads = 2
    /\ chunk[1].startIndex = 2
    /\ \A f \in 0 .. fileCount - 1 : processed[f] = 1

(* C10: inside a conversion loop over a payload that was decompressed in   *)
(* full, the read cursor is never past the end of the payload.             *)
C10_CursorInBounds ==
    \A t \in Threads :
        (pc[t] = "loop" /\ loc[t].res = file[t].decompressedSize) =>
            loc[t].cursor <= file[t].decompressedSize

====
